---------------------------- MODULE Spec2Model ----------------------------
(***************************************************************************)
(* A model of job_daily/services/integrations/bigquery/sync_with_df.py:    *)
(* the synchronisation of a pandas DataFrame with a BigQuery table.        *)
(*                                                                         *)
(* Cell values are tagged records.  Text is a sequence of one-character    *)
(* strings, so that lower-casing, number parsing and JSON parsing are      *)
(* computed on the text and not assumed.                                   *)
(***************************************************************************)
EXTENDS Integers, Sequences, FiniteSets, TLC

(***************************************************************************)
(* Text                                                                    *)
(***************************************************************************)
Digits == <<"0", "1", "2", "3", "4", "5", "6", "7", "8", "9">>

UpperCase == <<"A", "B", "D", "E", "F", "L", "N", "R", "S", "T", "U", "X">>

LowerCase == <<"a", "b", "d", "e", "f", "l", "n", "r", "s", "t", "u", "x">>

IsDigit(c) == \E i \in 1..10 : Digits[i] = c

DigitVal(c) == (CHOOSE i \in 1..10 : Digits[i] = c) - 1

\* str.lower(), one character
LowerChar(c) ==
    IF \E i \in 1..Len(UpperCase) : UpperCase[i] = c
    THEN LowerCase[CHOOSE i \in 1..Len(UpperCase) : UpperCase[i] = c]
    ELSE c

\* str.lower()
Lower(s) == [i \in 1..Len(s) |-> LowerChar(s[i])]

\* the code points of the characters the model uses, for ordering keys
CharOrd(c) ==
    CASE c = "\"" -> 34
      [] c = "'" -> 39
      [] IsDigit(c) -> 48 + DigitVal(c)
      [] \E i \in 1..Len(UpperCase) : UpperCase[i] = c ->
            65 + (CHOOSE i \in 1..Len(UpperCase) : UpperCase[i] = c)
      [] \E i \in 1..Len(LowerCase) : LowerCase[i] = c ->
            97 + (CHOOSE i \in 1..Len(LowerCase) : LowerCase[i] = c)
      [] OTHER -> 0

RECURSIVE StrLess(_, _)
\* s < t on text, as Python orders str
StrLess(s, t) ==
    IF t = <<>> THEN FALSE
    ELSE IF s = <<>> THEN TRUE
    ELSE IF CharOrd(s[1]) # CharOrd(t[1]) THEN CharOrd(s[1]) < CharOrd(t[1])
    ELSE StrLess(Tail(s), Tail(t))

RECURSIVE DigitsToInt(_)
DigitsToInt(s) ==
    IF s = <<>> THEN 0
    ELSE 10 * DigitsToInt(SubSeq(s, 1, Len(s) - 1)) + DigitVal(s[Len(s)])

RECURSIVE IntToDigits(_)
IntToDigits(n) ==
    IF n < 10 THEN <<Digits[n + 1]>>
    ELSE IntToDigits(n \div 10) \o <<Digits[(n % 10) + 1]>>

AllDigits(s) == s # <<>> /\ \A i \in 1..Len(s) : IsDigit(s[i])

RECURSIVE Split(_, _)
\* s.split(sep) for a one-character separator
Split(s, sep) ==
    IF \E i \in 1..Len(s) : s[i] = sep
    THEN LET i == CHOOSE i \in 1..Len(s) :
                      s[i] = sep /\ \A j \in 1..(i - 1) : s[j] # sep
         IN  <<SubSeq(s, 1, i - 1)>> \o Split(SubSeq(s, i + 1, Len(s)), sep)
    ELSE <<s>>

StripSpaces(s) == SelectSeq(s, LAMBDA c : c # " ")

(***************************************************************************)
(* Values: the Python objects a DataFrame cell or a fetched cell holds.    *)
(*   none  None                    nan   float("nan")                      *)
(*   bool  a Python bool           npbool a numpy.bool_ (has .item())      *)
(*   int, float  numbers (integer-valued in the model)                     *)
(*   str   text                    ts    a timestamp set by the server     *)
(*   dict  <<key, number>> pairs in insertion order                        *)
(*   list  numbers; an item is the pair <<"", number>>                     *)
(***************************************************************************)
Val(k, b, n, s, j) == [k |-> k, b |-> b, n |-> n, s |-> s, j |-> j]

VNone == Val("none", FALSE, 0, <<>>, <<>>)

VNaN == Val("nan", FALSE, 0, <<>>, <<>>)

VTs == Val("ts", FALSE, 0, <<>>, <<>>)

VBool(b) == Val("bool", b, 0, <<>>, <<>>)

VNpBool(b) == Val("npbool", b, 0, <<>>, <<>>)

VInt(n) == Val("int", FALSE, n, <<>>, <<>>)

VFloat(n) == Val("float", FALSE, n, <<>>, <<>>)

VStr(s) == Val("str", FALSE, 0, s, <<>>)

VDict(j) == Val("dict", FALSE, 0, <<>>, j)

VList(ns) == Val("list", FALSE, 0, <<>>, [i \in 1..Len(ns) |-> <<<<>>, ns[i]>>])


IsStructured(v) == v.k \in {"dict", "list"}

(***************************************************************************)
(* json.loads, ast.literal_eval and json.dumps on the structured values of *)
(* the model: flat objects with quoted keys and unsigned integer members,  *)
(* flat arrays of unsigned integers.  Blanks between tokens are ignored    *)
(* (no key of the model holds a blank).                                    *)
(***************************************************************************)
\* the index of the quote closing the one at m[1], 0 when there is none
ClosingQuote(m) ==
    IF \E q \in 2..Len(m) : m[q] = m[1]
    THEN CHOOSE q \in 2..Len(m) : m[q] = m[1] /\ \A r \in 2..(q - 1) : m[r] # m[1]
    ELSE 0

\* one member of an object: quote key quote ":" digits
MemberOk(m, quotes) ==
    /\ Len(m) >= 4
    /\ m[1] \in quotes
    /\ ClosingQuote(m) # 0
    /\ ClosingQuote(m) + 2 <= Len(m)
    /\ m[ClosingQuote(m) + 1] = ":"
    /\ AllDigits(SubSeq(m, ClosingQuote(m) + 2, Len(m)))

MemberOf(m) ==
    <<SubSeq(m, 2, ClosingQuote(m) - 1),
      DigitsToInt(SubSeq(m, ClosingQuote(m) + 2, Len(m)))>>

\* the parse of text s with the given string quotes: [ok, v]
ParseStructured(s, quotes) ==
    LET t     == StripSpaces(s)
        inner == SubSeq(t, 2, Len(t) - 1)
        parts == Split(inner, ",")
        bad   == [ok |-> FALSE, v |-> VNone]
    IN  IF Len(t) < 2 THEN bad
        ELSE IF t[1] = "{" /\ t[Len(t)] = "}"
        THEN IF inner = <<>> THEN [ok |-> TRUE, v |-> VDict(<<>>)]
             ELSE IF \A i \in 1..Len(parts) : MemberOk(parts[i], quotes)
             THEN [ok |-> TRUE,
                   v  |-> VDict([i \in 1..Len(parts) |-> MemberOf(parts[i])])]
             ELSE bad
        ELSE IF t[1] = "[" /\ t[Len(t)] = "]"
        THEN IF inner = <<>> THEN [ok |-> TRUE, v |-> VList(<<>>)]
             ELSE IF \A i \in 1..Len(parts) : AllDigits(parts[i])
             THEN [ok |-> TRUE,
                   v  |-> VList([i \in 1..Len(parts) |-> DigitsToInt(parts[i])])]
             ELSE bad
        ELSE bad

\* json.loads: strings are double-quoted
JsonLoads(s) == ParseStructured(s, {"\""})

\* ast.literal_eval: Python literals, strings in either quote
LiteralEval(s) == ParseStructured(s, {"\"", "'"})

RECURSIVE InsertPair(_, _)
InsertPair(p, sorted) ==
    IF sorted = <<>> THEN <<p>>
    ELSE IF StrLess(p[1], sorted[1][1]) THEN <<p>> \o sorted
    ELSE <<sorted[1]>> \o InsertPair(p, Tail(sorted))

RECURSIVE SortPairs(_)
SortPairs(j) ==
    IF j = <<>> THEN <<>> ELSE InsertPair(j[1], SortPairs(Tail(j)))

RECURSIVE JoinMembers(_, _)
JoinMembers(j, isDict) ==
    IF j = <<>> THEN <<>>
    ELSE (IF isDict THEN <<"\"">> \o j[1][1] \o <<"\"", ":", " ">> ELSE <<>>)
         \o IntToDigits(j[1][2])
         \o (IF Len(j) > 1 THEN <<",", " ">> ELSE <<>>)
         \o JoinMembers(Tail(j), isDict)

\* json.dumps(v, sort_keys=sort_keys) of a dict or a list
JsonDumps(v, sort_keys) ==
    IF v.k = "dict"
    THEN <<"{">> \o JoinMembers(IF sort_keys THEN SortPairs(v.j) ELSE v.j, TRUE)
         \o <<"}">>
    ELSE <<"[">> \o JoinMembers(v.j, FALSE) \o <<"]">>

(***************************************************************************)
(* _normalize_value and _equals                                            *)
(***************************************************************************)
StartsWithBracket(s) == s # <<>> /\ s[1] \in {"{", "["}

\* mutant of _normalize_value: boolean literals are matched in lower case only
_normalize_value_exact_case(v) ==
    IF v.k = "str"
    THEN IF v.s = <<"t", "r", "u", "e">> THEN VBool(TRUE)
         ELSE IF v.s = <<"f", "a", "l", "s", "e">> THEN VBool(FALSE)
         ELSE IF StartsWithBracket(v.s)
         THEN IF JsonLoads(v.s).ok THEN JsonLoads(v.s).v
              ELSE IF LiteralEval(v.s).ok THEN LiteralEval(v.s).v
              ELSE v
         ELSE v
    ELSE v

_normalize_value(v) ==
    IF v.k = "str"
    THEN IF Lower(v.s) = <<"t", "r", "u", "e">> THEN VBool(TRUE)
         ELSE IF Lower(v.s) = <<"f", "a", "l", "s", "e">> THEN VBool(FALSE)
         ELSE IF StartsWithBracket(v.s)
         THEN IF JsonLoads(v.s).ok THEN JsonLoads(v.s).v
              ELSE IF LiteralEval(v.s).ok THEN LiteralEval(v.s).v
              ELSE v
         ELSE v
    ELSE v

\* x.item() when x has that attribute: a numpy scalar becomes a Python scalar
Item(v) == IF v.k = "npbool" THEN VBool(v.b) ELSE v

\* float(v): [ok, nan, n]; ok is FALSE when float() raises
FloatOf(v) ==
    CASE v.k \in {"bool", "npbool"} ->
            [ok |-> TRUE, nan |-> FALSE, n |-> IF v.b THEN 1 ELSE 0]
      [] v.k \in {"int", "float"} -> [ok |-> TRUE, nan |-> FALSE, n |-> v.n]
      [] v.k = "nan" -> [ok |-> TRUE, nan |-> TRUE, n |-> 0]
      [] v.k = "str" /\ AllDigits(v.s) ->
            [ok |-> TRUE, nan |-> FALSE, n |-> DigitsToInt(v.s)]
      [] v.k = "str" /\ Lower(v.s) = <<"n", "a", "n">> ->
            [ok |-> TRUE, nan |-> TRUE, n |-> 0]
      [] OTHER -> [ok |-> FALSE, nan |-> FALSE, n |-> 0]

\* IEEE equality of two floats: a NaN equals nothing
FloatEq(x, y) == ~x.nan /\ ~y.nan /\ x.n = y.n

\* Python's a == b
PyEq(a, b) ==
    CASE a.k = "nan" \/ b.k = "nan" -> FALSE
      [] a.k \in {"bool", "npbool", "int", "float"}
           /\ b.k \in {"bool", "npbool", "int", "float"} ->
            FloatOf(a).n = FloatOf(b).n
      [] a.k # b.k -> FALSE
      [] a.k = "str" -> a.s = b.s
      [] a.k = "dict" ->
            Len(a.j) = Len(b.j) /\ {a.j[i] : i \in 1..Len(a.j)} = {b.j[i] : i \in 1..Len(b.j)}
      [] a.k = "list" -> a.j = b.j
      [] OTHER -> TRUE

EqualsNormalized(a, b) ==
    IF IsStructured(a) /\ IsStructured(b)
    THEN JsonDumps(a, TRUE) = JsonDumps(b, TRUE)
    ELSE IF a.k = "bool" /\ b.k = "bool" THEN a.b = b.b
    ELSE IF FloatOf(a).ok /\ FloatOf(b).ok THEN FloatEq(FloatOf(a), FloatOf(b))
    ELSE PyEq(a, b)

_equals(a, b) == EqualsNormalized(Item(_normalize_value(a)), Item(_normalize_value(b)))

(***************************************************************************)
(* _get_bq_field_type and _prepare_param_value                             *)
(***************************************************************************)
_get_bq_field_type(column_name, dtype) ==
    IF column_name = "_synced_at" THEN "TIMESTAMP"
    ELSE IF dtype = "int64" THEN "INTEGER"
    ELSE IF dtype = "float64" THEN "FLOAT"
    ELSE IF dtype = "bool" THEN "BOOL"
    ELSE IF dtype = "datetime64" THEN "TIMESTAMP"
    ELSE "STRING"

_prepare_param_value(value, bq_type) ==
    IF value.k = "none" THEN value
    ELSE IF bq_type = "STRING"
    THEN IF IsStructured(value) THEN VStr(JsonDumps(value, FALSE)) ELSE value
    ELSE IF bq_type = "BOOL"
    THEN IF value.k = "bool" THEN value
         ELSE IF value.k = "npbool" THEN VBool(value.b)
         ELSE IF value.k = "str" /\ Lower(value.s) = <<"t", "r", "u", "e">>
         THEN VBool(TRUE)
         ELSE IF value.k = "str" /\ Lower(value.s) = <<"f", "a", "l", "s", "e">>
         THEN VBool(FALSE)
         ELSE IF value.k \in {"int", "float"} THEN VBool(value.n # 0)
         ELSE IF value.k = "nan" THEN VBool(TRUE)
         ELSE value
    ELSE value

(***************************************************************************)
(* Datasets and the remote table.                                          *)
(*   dataset  [cols  : the column names, in order,                         *)
(*             dtype : column name -> pandas dtype,                        *)
(*             rows  : the rows, each a function column name -> value]     *)
(*   table    [exists, schema : fields [name, type] in order,              *)
(*             rows : each a function schema name -> cell]                 *)
(***************************************************************************)
Range(f) == {f[i] : i \in DOMAIN f}

Min(a, b) == IF a < b THEN a ELSE b

Field(name, type) == [name |-> name, type |-> type]

Names(schema) == {schema[i].name : i \in 1..Len(schema)}

UniqueNames(schema) ==
    \A i, j \in 1..Len(schema) : schema[i].name = schema[j].name => i = j

NoTable == [exists |-> FALSE, schema |-> <<>>, rows |-> <<>>]

EmptyFrame == [cols |-> <<>>, rows |-> <<>>]

\* column_types of sync_with_df
column_types(data) ==
    [c \in Range(data.cols) |-> _get_bq_field_type(c, data.dtype[c])]

(***************************************************************************)
(* _ensure_table_exists: the fields it asks the store to add to an         *)
(* existing table, and the schema it creates a missing table with.         *)
(***************************************************************************)
RECURSIVE MissingFields(_, _, _)
\* the loop over data.columns of the table-exists branch
MissingFields(cols, data, existing_fields) ==
    IF cols = <<>> THEN <<>>
    ELSE (IF cols[1] \notin existing_fields
          THEN <<Field(cols[1], _get_bq_field_type(cols[1], data.dtype[cols[1]]))>>
          ELSE <<>>)
         \o MissingFields(Tail(cols), data, existing_fields)

new_fields(schema, data) ==
    MissingFields(data.cols, data, Names(schema))
    \o (IF "_synced_at" \notin Names(schema)
        THEN <<Field("_synced_at", "TIMESTAMP")>>
        ELSE <<>>)

\* mutant of altered_schema: the new fields are put in front of the schema
altered_schema_prepended(schema, data) == new_fields(schema, data) \o schema

\* table_obj.schema + new_fields
altered_schema(schema, data) == schema \o new_fields(schema, data)

created_schema(data) ==
    LET schema == [i \in 1..Len(data.cols) |->
                      Field(data.cols[i],
                            _get_bq_field_type(data.cols[i], data.dtype[data.cols[i]]))]
    IN  schema \o (IF "_synced_at" \notin Names(schema)
                   THEN <<Field("_synced_at", "TIMESTAMP")>>
                   ELSE <<>>)

(***************************************************************************)
(* The store's side of the calls.  A schema holds each name once: the      *)
(* store rejects a schema, or an INSERT column list, that repeats a name.  *)
(***************************************************************************)
\* client.update_table(table_obj, ["schema"]): the rows read NULL in a new column
update_table(t, schema) ==
    [t EXCEPT !.schema = schema,
              !.rows = [i \in 1..Len(t.rows) |->
                           [c \in Names(schema) |->
                               IF c \in DOMAIN t.rows[i] THEN t.rows[i][c] ELSE VNone]]]

\* client.create_table(table_obj)
create_table(schema) == [exists |-> TRUE, schema |-> schema, rows |-> <<>>]

\* SQL equality, as the WHERE clauses use it: NULL equals nothing
SqlEq(a, b) == a.k # "none" /\ b.k # "none" /\ PyEq(a, b)

\* result.to_dataframe(): a NULL of a FLOAT column reads as NaN
FetchCell(type, cell) == IF cell.k = "none" /\ type = "FLOAT" THEN VNaN ELSE cell

\* mutant of _get_existing_dataframe: the result does not reflect the rows of the table
_get_existing_dataframe_stale(t, reference_id, ref_ids) ==
    [cols |-> [i \in 1..Len(t.schema) |-> t.schema[i].name], rows |-> <<>>]

\* SELECT * FROM table WHERE reference_id IN UNNEST(@ref_ids), as a DataFrame
_get_existing_dataframe(t, reference_id, ref_ids) ==
    LET hit(r) == \E i \in 1..Len(ref_ids) : SqlEq(r[reference_id], ref_ids[i])
        found  == SelectSeq(t.rows, hit)
        typeOf == [c \in Names(t.schema) |->
                      (CHOOSE f \in Range(t.schema) : f.name = c).type]
    IN  [cols |-> [i \in 1..Len(t.schema) |-> t.schema[i].name],
         rows |-> [i \in 1..Len(found) |->
                      [c \in Names(t.schema) |-> FetchCell(typeOf[c], found[i][c])]]]

\* data[reference_id].tolist()
ref_ids_of(data, reference_id) ==
    [i \in 1..Len(data.rows) |-> data.rows[i][reference_id]]

(***************************************************************************)
(* _prepare_rows                                                           *)
(***************************************************************************)
\* existing_df[reference_id] == ref_value, element by element: None matches nothing
PandasEq(a, b) == a.k # "none" /\ b.k # "none" /\ PyEq(a, b)

\* mutant of existing_row: the filter on the reference value is dropped
existing_row_unfiltered(existing_df, reference_id, ref_value) == existing_df.rows

\* existing_df[existing_df[reference_id] == ref_value]
existing_row(existing_df, reference_id, ref_value) ==
    SelectSeq(existing_df.rows, LAMBDA e : PandasEq(e[reference_id], ref_value))

\* mutant of changed_cols: the values are compared as they are, not by _equals
changed_cols_raw(new_row, cols, reference_id, existing_df, first) ==
    {c \in Range(cols) \ {reference_id, "_synced_at"} :
        c \notin Range(existing_df.cols) \/ first[c] # new_row[c]}

\* the columns the inner loop marks as changed against existing_row.iloc[0]
changed_cols(new_row, cols, reference_id, existing_df, first) ==
    {c \in Range(cols) \ {reference_id, "_synced_at"} :
        c \notin Range(existing_df.cols) \/ ~_equals(first[c], new_row[c])}

\* the dict appended to rows_to_insert
insert_row(new_row, cols) ==
    [c \in Range(cols) \cup {"_synced_at"} |->
        IF c = "_synced_at" THEN VNone ELSE new_row[c]]

\* mutant of updated_row: the whole row is sent, not the changed columns
updated_row_full(new_row, changed, reference_id) ==
    [c \in DOMAIN new_row \cup {"_synced_at"} |->
        IF c = "_synced_at" THEN VNone ELSE new_row[c]]

\* the dict appended to rows_to_update
updated_row(new_row, changed, reference_id) ==
    [c \in changed \cup {"_synced_at", reference_id} |->
        IF c = "_synced_at" THEN VNone ELSE new_row[c]]

RECURSIVE prepare_loop(_, _, _, _, _)
\* the loop over data.iterrows(), from row i on, acc = [ins, upd]
prepare_loop(data, reference_id, existing_df, i, acc) ==
    IF i > Len(data.rows) THEN acc
    ELSE LET new_row == data.rows[i]
             found   == existing_row(existing_df, reference_id, new_row[reference_id])
             changed == changed_cols(new_row, data.cols, reference_id, existing_df, found[1])
         IN  prepare_loop(data, reference_id, existing_df, i + 1,
                 IF found = <<>>
                 THEN [acc EXCEPT !.ins = Append(@, insert_row(new_row, data.cols))]
                 ELSE IF changed # {}
                 THEN [acc EXCEPT !.upd = Append(@, updated_row(new_row, changed, reference_id))]
                 ELSE acc)

\* mutant of _prepare_rows: both lists come out last row first
_prepare_rows_reversed(data, reference_id, existing_df) ==
    LET p == prepare_loop(data, reference_id, existing_df, 1, [ins |-> <<>>, upd |-> <<>>])
    IN  [ins |-> [k \in 1..Len(p.ins) |-> p.ins[Len(p.ins) + 1 - k]],
         upd |-> [k \in 1..Len(p.upd) |-> p.upd[Len(p.upd) + 1 - k]]]

_prepare_rows(data, reference_id, existing_df) ==
    prepare_loop(data, reference_id, existing_df, 1, [ins |-> <<>>, upd |-> <<>>])

(***************************************************************************)
(* _execute_batch_insert and _execute_batch_update                         *)
(***************************************************************************)
MaxParameters == 10000

\* the poll loop of a batch is followed for this many TimeoutErrors
MaxPolls == 2

MaxBatchRows == 500

StopAfterAttempt == 7

\* mutant of batch_size: the parameter ceiling is left out
batch_size_capped_only(num_columns) == MaxBatchRows

batch_size(num_columns) ==
    Min(MaxBatchRows,
        IF num_columns > 0 THEN MaxParameters \div num_columns ELSE MaxBatchRows)

\* mutant of total_batches: the division rounds down
total_batches_floor(total_inserts, size) == total_inserts \div size

total_batches(total_inserts, size) == (total_inserts + size - 1) \div size

\* rows_to_insert[start_index:end_index] of batch batch_index (from 0)
current_batch(rows, batch_index, size) ==
    SubSeq(rows, batch_index * size + 1, Min(batch_index * size + size, Len(rows)))

\* INSERT INTO table (data.columns, _synced_at) names every column once
insert_accepted(data) == "_synced_at" \notin Range(data.cols)

\* mutant of insert_into: the batch takes the place of the rows of the table
insert_into_replacing(t, data, batch) ==
    LET types  == column_types(data)
        row(r) == [c \in Names(t.schema) |->
                      IF c = "_synced_at" THEN VTs
                      ELSE IF c \in Range(data.cols)
                      THEN _prepare_param_value(r[c], types[c])
                      ELSE VNone]
    IN  [t EXCEPT !.rows = [i \in 1..Len(batch) |-> row(batch[i])]]

\* the table after INSERT INTO table (data.columns, _synced_at) VALUES batch
insert_into(t, data, batch) ==
    LET types  == column_types(data)
        row(r) == [c \in Names(t.schema) |->
                      IF c = "_synced_at" THEN VTs
                      ELSE IF c \in Range(data.cols)
                      THEN _prepare_param_value(r[c], types[c])
                      ELSE VNone]
    IN  [t EXCEPT !.rows = @ \o [i \in 1..Len(batch) |-> row(batch[i])]]

\* mutant of update_set: the WHERE clause is missing
update_set_everywhere(t, data, reference_id, row) ==
    LET types == column_types(data)
        set   == DOMAIN row \ {reference_id, "_synced_at"}
    IN  [t EXCEPT !.rows = [i \in 1..Len(t.rows) |->
            [c \in DOMAIN t.rows[i] |->
                IF c \in set THEN _prepare_param_value(row[c], types[c])
                ELSE IF c = "_synced_at" THEN VTs
                ELSE t.rows[i][c]]]]

\* the table after UPDATE table SET changed columns, _synced_at WHERE reference_id = @reference_id
update_set(t, data, reference_id, row) ==
    LET types == column_types(data)
        set   == DOMAIN row \ {reference_id, "_synced_at"}
        key   == _prepare_param_value(row[reference_id], types[reference_id])
    IN  [t EXCEPT !.rows = [i \in 1..Len(t.rows) |->
            IF SqlEq(t.rows[i][reference_id], key)
            THEN [c \in DOMAIN t.rows[i] |->
                     IF c \in set THEN _prepare_param_value(row[c], types[c])
                     ELSE IF c = "_synced_at" THEN VTs
                     ELSE t.rows[i][c]]
            ELSE t.rows[i]]]

(***************************************************************************)
(* State                                                                   *)
(***************************************************************************)
VARIABLES
    cred,            \* os.path.exists(config.SERVICE_ACCOUNT_FILE_PATH)
    tbl,             \* the remote table
    data,            \* the DataFrame of the sync in progress (or of the last one)
    pc,              \* where sync_with_df is
    attempt,         \* tenacity's attempt number
    err,             \* the exception the last failed attempt raised
    existing_df,     \* local of sync_with_df
    rows_to_insert,  \* local of sync_with_df
    rows_to_update,  \* local of sync_with_df
    batch_index,     \* loop variable of _execute_batch_insert
    count,           \* updates done by the loop of _execute_batch_update
    calls,           \* the remote calls of the current attempt, in order
    polls,           \* TimeoutErrors caught by the poll loop of the current batch
    rerun,           \* this sync repeats the dataset of a sync that just succeeded
    arg_a,           \* the argument a of a call of _equals
    arg_b,           \* the argument b of that call
    equal,           \* what the call returned
    rate_limit,      \* Throttler.rate_limit
    period,          \* Throttler.period
    requests,        \* Throttler.requests
    lock,            \* the thread that holds Throttler.lock, 0 when it is free
    now,             \* what time.time() returns
    where,           \* thread -> where the thread is in acquire
    current_time,    \* thread -> the local current_time of acquire
    wake,            \* thread -> the earliest time at which its time.sleep returns
    granted,         \* the timestamps recorded by the calls of acquire that returned
    writers,         \* writer -> the locals of its invocation of sync_with_df (concurrent syncs)
    overlapped       \* two invocations of sync_with_df have been in progress at once

vars == <<cred, tbl, data, pc, attempt, err, existing_df, rows_to_insert,
          rows_to_update, batch_index, count, calls, polls, rerun, arg_a, arg_b, equal,
          rate_limit, period, requests, lock, now, where, current_time, wake, granted,
          writers, overlapped>>

locals == <<existing_df, rows_to_insert, rows_to_update, batch_index, count, polls>>

\* the state of the comparator, which no step of sync_with_df keeps
compared == <<arg_a, arg_b, equal>>

NothingCompared == arg_a = VNone /\ arg_b = VNone /\ equal = FALSE

\* the state of the throttler, which sync_with_df does not use
throttler == <<rate_limit, period, requests, lock, now, where, current_time, wake, granted>>

NoThrottler ==
    /\ rate_limit = 1
    /\ period = 1
    /\ requests = <<>>
    /\ lock = 0
    /\ now = 0
    /\ where = <<>>
    /\ current_time = <<>>
    /\ wake = <<>>
    /\ granted = <<>>

\* the state of concurrent invocations, which a single sync_with_df does not have
race == <<writers, overlapped>>

NoRace ==
    /\ writers = <<>>
    /\ overlapped = FALSE

\* the reference column the caller names
reference_id == "id"

Call(op, ok) == [op |-> op, ok |-> ok]

ResetLocals ==
    /\ existing_df' = EmptyFrame
    /\ rows_to_insert' = <<>>
    /\ rows_to_update' = <<>>
    /\ batch_index' = 0
    /\ count' = 0
    /\ polls' = 0

\* mutant of Raise: the attempt limit is tested one attempt late
RaiseOneMore(e) ==
    /\ IF attempt <= StopAfterAttempt
       THEN pc' = "start" /\ attempt' = attempt + 1 /\ err' = e
       ELSE pc' = "failed" /\ attempt' = attempt /\ err' = "RetryError"
    /\ ResetLocals

\* an exception leaves sync_with_df: tenacity calls it again, or gives up
\* after the last attempt and raises RetryError
Raise(e) ==
    /\ IF attempt < StopAfterAttempt
       THEN pc' = "start" /\ attempt' = attempt + 1 /\ err' = e
       ELSE pc' = "failed" /\ attempt' = attempt /\ err' = "RetryError"
    /\ ResetLocals

\* mutant of AfterSchema: the test for an empty ref_ids list is missing
AfterSchemaAlwaysFetch ==
    /\ pc' = "fetch"
    /\ UNCHANGED <<attempt, err, locals>>

\* where sync_with_df goes once _ensure_table_exists has returned
AfterSchema ==
    /\ pc' = IF ref_ids_of(data, reference_id) = <<>> THEN "done" ELSE "fetch"
    /\ UNCHANGED <<attempt, err, locals>>

\* mutant of AfterInserts: the updates are run before the inserts
AfterInsertsUpdatesFirst(ins, upd, bi) ==
    IF upd # <<>> THEN "update"
    ELSE IF ins # <<>> /\ bi < total_batches(Len(ins), batch_size(Len(data.cols)))
    THEN "insert"
    ELSE "done"

\* where sync_with_df goes once the inserts from batch bi on are due
AfterInserts(ins, upd, bi) ==
    IF ins # <<>> /\ bi < total_batches(Len(ins), batch_size(Len(data.cols)))
    THEN "insert"
    ELSE IF upd # <<>> THEN "update"
    ELSE "done"

(***************************************************************************)
(* Actions: sync_with_df, one action per remote call (or file-system test) *)
(***************************************************************************)
\* the caller invokes sync_with_df(d, "id", ...)
sync_with_df(d, fileExists) ==
    /\ pc \in {"idle", "done", "failed"}
    /\ data' = d
    /\ cred' = fileExists
    /\ rerun' = (pc = "done" /\ d = data)
    /\ pc' = "start"
    /\ attempt' = 1
    /\ err' = "none"
    /\ calls' = <<>>
    /\ ResetLocals
    /\ UNCHANGED <<tbl, compared, throttler, race>>

\* os.path.exists(config.SERVICE_ACCOUNT_FILE_PATH), the first statement of an attempt
CheckCredentials ==
    /\ pc = "start"
    /\ calls' = <<>>
    /\ IF cred
       THEN pc' = "describe" /\ UNCHANGED <<attempt, err, locals>>
       ELSE Raise("FileNotFoundError")
    /\ UNCHANGED <<cred, tbl, data, rerun, compared, throttler, race>>

\* client.get_table(table_id) returns the table, or raises NotFound
GetTable ==
    /\ pc = "describe"
    /\ calls' = Append(calls, Call("describe", TRUE))
    /\ IF ~tbl.exists
       THEN pc' = "create" /\ UNCHANGED <<attempt, err, locals>>
       ELSE IF new_fields(tbl.schema, data) # <<>>
       THEN pc' = "alter" /\ UNCHANGED <<attempt, err, locals>>
       ELSE AfterSchema
    /\ UNCHANGED <<cred, tbl, data, rerun, compared, throttler, race>>

\* client.get_table(table_id) raises another error
GetTableFails ==
    /\ pc = "describe"
    /\ calls' = Append(calls, Call("describe", FALSE))
    /\ Raise("RemoteError")
    /\ UNCHANGED <<cred, tbl, data, rerun, compared, throttler, race>>

\* mutant of UpdateTable: the table is described again after the alter
UpdateTableDescribesAgain ==
    /\ pc = "alter"
    /\ UniqueNames(altered_schema(tbl.schema, data))
    /\ calls' = Append(calls, Call("alter", TRUE))
    /\ tbl' = update_table(tbl, altered_schema(tbl.schema, data))
    /\ pc' = "describe"
    /\ UNCHANGED <<cred, data, rerun, attempt, err, locals, compared, throttler, race>>

\* client.update_table(table_obj, ["schema"])
UpdateTable ==
    /\ pc = "alter"
    /\ UniqueNames(altered_schema(tbl.schema, data))
    /\ calls' = Append(calls, Call("alter", TRUE))
    /\ tbl' = update_table(tbl, altered_schema(tbl.schema, data))
    /\ AfterSchema
    /\ UNCHANGED <<cred, data, rerun, compared, throttler, race>>

\* client.update_table raises: the store rejects the schema, or is unreachable
UpdateTableFails ==
    /\ pc = "alter"
    /\ calls' = Append(calls, Call("alter", FALSE))
    /\ Raise("RemoteError")
    /\ UNCHANGED <<cred, tbl, data, rerun, compared, throttler, race>>

\* client.create_table(table_obj)
CreateTable ==
    /\ pc = "create"
    /\ UniqueNames(created_schema(data))
    /\ calls' = Append(calls, Call("create", TRUE))
    /\ tbl' = create_table(created_schema(data))
    /\ AfterSchema
    /\ UNCHANGED <<cred, data, rerun, compared, throttler, race>>

\* client.create_table raises
CreateTableFails ==
    /\ pc = "create"
    /\ calls' = Append(calls, Call("create", FALSE))
    /\ Raise("RemoteError")
    /\ UNCHANGED <<cred, tbl, data, rerun, compared, throttler, race>>

\* _get_existing_dataframe returns, then _prepare_rows
Fetch ==
    /\ pc = "fetch"
    /\ calls' = Append(calls, Call("fetch", TRUE))
    /\ LET e == _get_existing_dataframe(tbl, reference_id, ref_ids_of(data, reference_id))
           p == _prepare_rows(data, reference_id, e)
       IN  /\ existing_df' = e
           /\ rows_to_insert' = p.ins
           /\ rows_to_update' = p.upd
           /\ pc' = AfterInserts(p.ins, p.upd, 0)
    /\ UNCHANGED <<cred, tbl, data, attempt, err, batch_index, count, polls, rerun, compared, throttler, race>>

\* the SELECT raises
FetchFails ==
    /\ pc = "fetch"
    /\ calls' = Append(calls, Call("fetch", FALSE))
    /\ Raise("RemoteError")
    /\ UNCHANGED <<cred, tbl, data, rerun, compared, throttler, race>>

\* client.query(insert_query, ...) submits the INSERT of the current batch
SubmitInsert ==
    /\ pc = "insert"
    /\ calls' = Append(calls, Call("insert", TRUE))
    /\ pc' = "poll"
    /\ UNCHANGED <<cred, tbl, data, attempt, err, locals, rerun, compared, throttler, race>>

\* client.query(insert_query, ...) raises
SubmitInsertFails ==
    /\ pc = "insert"
    /\ calls' = Append(calls, Call("insert", FALSE))
    /\ Raise("RemoteError")
    /\ UNCHANGED <<cred, tbl, data, rerun, compared, throttler, race>>

\* mutant of PollTimeout: the TimeoutError leaves the loop and the attempt
PollTimeoutRaises ==
    /\ pc = "poll"
    /\ polls < MaxPolls
    /\ Raise("TimeoutError")
    /\ UNCHANGED <<cred, tbl, data, calls, rerun, compared, throttler, race>>

\* job.result(timeout=poll_interval) raises TimeoutError: poll again
PollTimeout ==
    /\ pc = "poll"
    /\ polls < MaxPolls
    /\ polls' = polls + 1
    /\ UNCHANGED <<cred, tbl, data, pc, attempt, err, existing_df, rows_to_insert,
                   rows_to_update, batch_index, count, calls, rerun, compared, throttler, race>>

\* job.result(timeout=poll_interval) returns: the batch is in the table
PollDone ==
    /\ pc = "poll"
    /\ insert_accepted(data)
    /\ calls' = Append(calls, Call("inserted", TRUE))
    /\ tbl' = insert_into(tbl, data,
                 current_batch(rows_to_insert, batch_index, batch_size(Len(data.cols))))
    /\ batch_index' = batch_index + 1
    /\ polls' = 0
    /\ pc' = AfterInserts(rows_to_insert, rows_to_update, batch_index + 1)
    /\ UNCHANGED <<cred, data, attempt, err, existing_df, rows_to_insert,
                   rows_to_update, count, rerun, compared, throttler, race>>

\* job.result raises another error: the job failed (nothing is written), or
\* the job ran and the connection to it was lost (committed)
PollFails(committed) ==
    /\ pc = "poll"
    /\ committed => insert_accepted(data)
    /\ calls' = Append(calls, Call("inserted", FALSE))
    /\ tbl' = IF committed
              THEN insert_into(tbl, data,
                      current_batch(rows_to_insert, batch_index, batch_size(Len(data.cols))))
              ELSE tbl
    /\ Raise("RemoteError")
    /\ UNCHANGED <<cred, data, rerun, compared, throttler, race>>

\* client.query(update_query, ...) and job.result() for the next row of rows_to_update
Update ==
    /\ pc = "update"
    /\ calls' = Append(calls, Call("update", TRUE))
    /\ tbl' = update_set(tbl, data, reference_id, rows_to_update[count + 1])
    /\ count' = count + 1
    /\ pc' = IF count + 1 < Len(rows_to_update) THEN "update" ELSE "done"
    /\ UNCHANGED <<cred, data, attempt, err, existing_df, rows_to_insert,
                   rows_to_update, batch_index, polls, rerun, compared, throttler, race>>

\* the UPDATE raises, before or after the store applied it
UpdateFails(committed) ==
    /\ pc = "update"
    /\ calls' = Append(calls, Call("update", FALSE))
    /\ tbl' = IF committed
              THEN update_set(tbl, data, reference_id, rows_to_update[count + 1])
              ELSE tbl
    /\ Raise("RemoteError")
    /\ UNCHANGED <<cred, data, rerun, compared, throttler, race>>

Attempt ==
    \/ CheckCredentials
    \/ GetTable
    \/ GetTableFails
    \/ UpdateTable
    \/ UpdateTableFails
    \/ CreateTable
    \/ CreateTableFails
    \/ Fetch
    \/ FetchFails
    \/ SubmitInsert
    \/ SubmitInsertFails
    \/ PollTimeout
    \/ PollDone
    \/ \E committed \in BOOLEAN : PollFails(committed)
    \/ Update
    \/ \E committed \in BOOLEAN : UpdateFails(committed)

(***************************************************************************)
(* The inputs of the sync model: DataFrames with the columns id (text) and *)
(* score (float64), rows with distinct reference values.                   *)
(***************************************************************************)
MaxScore == 1

MaxRows == 2

MaxTableRows == 1

RefValues == {VStr(<<"x", "1">>), VStr(<<"x", "2">>)}

ScoreValues == {VFloat(n) : n \in 1..MaxScore} \cup {VNaN}

SeqsUpTo(S, n) == UNION {[1..m -> S] : m \in 0..n}

DistinctRefs(rows) ==
    \A i, j \in 1..Len(rows) : rows[i][reference_id] = rows[j][reference_id] => i = j

SyncCols == <<"id", "score">>

SyncDtype == [c \in {"id", "score"} |-> IF c = "id" THEN "object" ELSE "float64"]

SyncRows == {[c \in {"id", "score"} |-> IF c = "id" THEN r ELSE v] :
                r \in RefValues, v \in ScoreValues}

SyncDatasets ==
    {[cols |-> SyncCols, dtype |-> SyncDtype, rows |-> rows] :
        rows \in {q \in SeqsUpTo(SyncRows, MaxRows) : DistinctRefs(q)}}

NoData == [cols |-> <<>>, dtype |-> <<>>, rows |-> <<>>]

\* the tables a first sync may find: none, one without score, one without
\* _synced_at, one with every column
InitSchemas ==
    { <<Field("id", "STRING"), Field("_synced_at", "TIMESTAMP")>>,
      <<Field("id", "STRING"), Field("score", "FLOAT")>>,
      <<Field("id", "STRING"), Field("score", "FLOAT"), Field("_synced_at", "TIMESTAMP")>> }

InitCells(c) ==
    IF c = "id" THEN RefValues
    ELSE IF c = "score" THEN ScoreValues \cup {VNone}
    ELSE {VTs}

InitRows(schema) ==
    {r \in [Names(schema) -> RefValues \cup ScoreValues \cup {VNone, VTs}] :
        \A c \in Names(schema) : r[c] \in InitCells(c)}

InitTables ==
    {NoTable} \cup
    UNION {{[exists |-> TRUE, schema |-> schema, rows |-> rows] :
               rows \in SeqsUpTo(InitRows(schema), MaxTableRows)} :
           schema \in InitSchemas}

Init ==
    /\ cred \in BOOLEAN
    /\ tbl \in InitTables
    /\ data = NoData
    /\ pc = "idle"
    /\ attempt = 1
    /\ err = "none"
    /\ existing_df = EmptyFrame
    /\ rows_to_insert = <<>>
    /\ rows_to_update = <<>>
    /\ batch_index = 0
    /\ count = 0
    /\ calls = <<>>
    /\ polls = 0
    /\ rerun = FALSE
    /\ NothingCompared
    /\ NoThrottler
    /\ NoRace

Next ==
    \/ \E d \in SyncDatasets, fileExists \in BOOLEAN : sync_with_df(d, fileExists)
    \/ Attempt

Spec == Init /\ [][Next]_vars

(***************************************************************************)
(* Properties of the sync model (specification Spec)                       *)
(***************************************************************************)
Ops(log) == {log[i].op : i \in 1..Len(log)}

\* the step just taken raised an exception out of sync_with_df
RaisedStep ==
    \/ pc = "start" /\ ~cred
    \/ calls' # calls /\ calls' # <<>> /\ ~calls'[Len(calls')].ok

LocalsAreReset ==
    /\ existing_df = EmptyFrame
    /\ rows_to_insert = <<>>
    /\ rows_to_update = <<>>
    /\ batch_index = 0
    /\ count = 0
    /\ polls = 0

\* C1: a sync that repeats the dataset of the sync that just succeeded issues
\* no INSERT and no UPDATE statement and plans none.
C1_RerunIsNoOp ==
    rerun => /\ Ops(calls) \cap {"insert", "inserted", "update"} = {}
             /\ rows_to_insert = <<>>
             /\ rows_to_update = <<>>

\* the cells of the DataFrame that are NaN
HasNaN(d) == \E i \in 1..Len(d.rows) : \E c \in DOMAIN d.rows[i] : d.rows[i][c].k = "nan"

\* the re-run is a no-op for every dataset of the model without a NaN cell
RerunWithoutNaNIsNoOp == (rerun /\ ~HasNaN(data)) => C1_RerunIsNoOp

\* C5: an exception raised by any step of an attempt starts the next attempt
\* at the credential check with fresh locals, there are never more than 7
\* attempts, only an exception starts another attempt, a successful attempt
\* is followed by no other, and the exception of attempt 7 ends the sync as failed.
C5_RetriedAsAUnit ==
    [][/\ attempt' <= StopAfterAttempt
       /\ RaisedStep =>
             IF attempt < StopAfterAttempt
             THEN pc' = "start" /\ attempt' = attempt + 1 /\ LocalsAreReset'
             ELSE pc' = "failed" /\ attempt' = attempt /\ err' = "RetryError"
       /\ (pc' = "start" /\ pc \notin {"idle", "done", "failed"}) => RaisedStep
       /\ pc' = "failed" => (RaisedStep /\ attempt = StopAfterAttempt)
       /\ pc \in {"done", "failed"} => (pc' = "start" /\ attempt' = 1)
      ]_vars

\* the 7th attempt failed, its exception raised by a remote call
C5_Witness ==
    /\ pc = "failed"
    /\ attempt = StopAfterAttempt
    /\ calls # <<>>
    /\ ~calls[Len(calls)].ok

\* C6: with the credential file missing, sync_with_df makes one attempt only
\* and issues no remote call.
C6_MissingCredentialNotRetried ==
    (pc # "idle" /\ ~cred) => (attempt = 1 /\ calls = <<>>)

\* the place of a remote call in the order of an attempt
Rank(op) ==
    CASE op = "describe" -> 1
      [] op \in {"create", "alter"} -> 2
      [] op = "fetch" -> 3
      [] op \in {"insert", "inserted"} -> 4
      [] op = "update" -> 5

CountOf(log, ops, ok) == Cardinality({i \in 1..Len(log) : log[i].op \in ops /\ log[i].ok = ok})

C8_EmptyShortCircuit ==
    (pc # "idle" /\ data.rows = <<>>) =>
        /\ Ops(calls) \subseteq {"describe", "create", "alter"}
        /\ pc \in {"start", "describe", "create", "alter", "done", "failed"}
        /\ rows_to_insert = <<>> /\ rows_to_update = <<>>
        /\ (calls # <<>> /\ calls[Len(calls)].ok /\ pc \notin {"create", "alter"}) => pc = "done"

\* a sync of a DataFrame without rows created the table and returned
C8_Witness ==
    /\ pc = "done"
    /\ data.rows = <<>>
    /\ data.cols # <<>>
    /\ "create" \in Ops(calls)

\* how many calls of the log, failed ones included, are of the given kinds
Issued(log, ops) == CountOf(log, ops, TRUE) + CountOf(log, ops, FALSE)

\* the step issues a remote call of one of the given kinds
Issues(ops) == calls' # calls /\ calls' # <<>> /\ calls'[Len(calls')].op \in ops

\* C11 as stated, for the describe call: one invocation of sync_with_df
\* issues the describe call once, so no attempt after the first issues it.
C11_OneDescribePerInvocation ==
    [][Issues({"describe"}) => attempt = 1]_vars

\* C11, amended: each attempt that passes the credential check issues the
\* describe call exactly once and at most one create or alter call, after
\* the describe; an attempt that fails the credential check issues none.
C11_OneDescribePerAttempt ==
    /\ Issued(calls, {"describe"}) <= 1
    /\ Issued(calls, {"create", "alter"}) <= 1
    /\ Issued(calls, {"create", "alter"}) = 1 => calls[1].op = "describe" /\ calls[1].ok
    /\ (pc \in {"create", "alter", "fetch", "insert", "poll", "update", "done"}
           \/ (pc = "failed" /\ cred))
          => Issued(calls, {"describe"}) = 1
    /\ (pc # "idle" /\ ~cred) => calls = <<>>

\* a later attempt of one invocation described the table and altered it
C11_Witness ==
    /\ attempt > 1
    /\ pc = "done"
    /\ Issued(calls, {"describe"}) = 1
    /\ CountOf(calls, {"alter"}, TRUE) = 1

\* C15: no step of any attempt of any sync removes a row: the table, once
\* there, stays, it never has fewer rows than before, and each of its rows
\* keeps its place and its reference value.
C15_NoDeletes ==
    [][/\ tbl.exists => tbl'.exists
       /\ Len(tbl'.rows) >= Len(tbl.rows)
       /\ \A i \in 1..Len(tbl.rows) :
             tbl'.rows[i][reference_id] = tbl.rows[i][reference_id]
      ]_vars

\* a retried sync has inserted and updated: the table holds more rows than
\* any table the model starts from
C15_Witness ==
    /\ pc = "done"
    /\ attempt > 1
    /\ Len(tbl.rows) > MaxTableRows
    /\ {"inserted", "update"} \subseteq Ops(calls)

\* the rows of table t whose reference column equals ref
RowsWithRef(t, ref) == {i \in 1..Len(t.rows) : SqlEq(t.rows[i][reference_id], ref)}

\* no two rows of table t hold the same reference value
RefsUnique(t) ==
    \A i, j \in 1..Len(t.rows) :
        SqlEq(t.rows[i][reference_id], t.rows[j][reference_id]) => i = j

\* the step is the existing-rows SELECT of an attempt, followed by the plan
FetchStep == pc = "fetch" /\ calls' # calls /\ calls'[Len(calls')] = Call("fetch", TRUE)

\* row (a sparse toUpdate row) differs, for the comparator, from a row of t
\* of its reference value in every column it names
StillDiffers(t, row) ==
    LET typeOf(c) == (CHOOSE f \in Range(t.schema) : f.name = c).type
    IN  /\ DOMAIN row \ {reference_id, "_synced_at"} # {}
        /\ \E i \in RowsWithRef(t, row[reference_id]) :
               \A c \in DOMAIN row \ {reference_id, "_synced_at"} :
                   ~_equals(FetchCell(typeOf(c), t.rows[i][c]), row[c])

\* the sync model from a table that is absent, or in which no two rows hold
\* the same reference value
RetryInit == Init /\ RefsUnique(tbl)

RetrySpec == RetryInit /\ [][Next]_vars

UpdateFrame(row) ==
    LET changed == DOMAIN row \ {reference_id, "_synced_at"}
        types   == column_types(data)
    IN  /\ tbl'.exists = tbl.exists
        /\ tbl'.schema = tbl.schema
        /\ Len(tbl'.rows) = Len(tbl.rows)
        /\ \A i \in 1..Len(tbl.rows) :
               IF i \in RowsWithRef(tbl, row[reference_id])
               THEN /\ DOMAIN tbl'.rows[i] = DOMAIN tbl.rows[i]
                    /\ \A c \in DOMAIN tbl.rows[i] :
                           tbl'.rows[i][c] =
                               IF c \in changed THEN _prepare_param_value(row[c], types[c])
                               ELSE IF c = "_synced_at" THEN VTs
                               ELSE tbl.rows[i][c]
               ELSE tbl'.rows[i] = tbl.rows[i]

\* C22: the k-th UPDATE of an attempt is the one for the k-th row of
\* rows_to_update; it changes only rows whose reference column equals the
\* reference value of that row, there only the changed columns the sparse
\* row names and _synced_at, and nothing else of the table (an UPDATE that
\* raises has done that or nothing); a sync that has succeeded has issued
\* exactly one UPDATE for each row of rows_to_update.
C22_UpdateFrame ==
    /\ [][pc = "update" =>
            /\ count = CountOf(calls, {"update"}, TRUE)
            /\ count < Len(rows_to_update)
            /\ IF calls' = Append(calls, Call("update", TRUE))
               THEN count' = count + 1 /\ UpdateFrame(rows_to_update[count + 1])
               ELSE tbl' = tbl \/ UpdateFrame(rows_to_update[count + 1])]_vars
    /\ [](pc = "done" =>
            /\ CountOf(calls, {"update"}, TRUE) = Len(rows_to_update)
            /\ CountOf(calls, {"update"}, FALSE) = 0)

\* one UPDATE has run on a table of two rows and has changed the score of
\* one of them
C22_Witness ==
    /\ pc = "done"
    /\ Len(rows_to_update) = 1
    /\ CountOf(calls, {"update"}, TRUE) = 1
    /\ Len(tbl.rows) = 2
    /\ Cardinality(RowsWithRef(tbl, rows_to_update[1][reference_id])) = 1
    /\ "score" \in DOMAIN rows_to_update[1]
    /\ \E i \in 1..2 : /\ i \notin RowsWithRef(tbl, rows_to_update[1][reference_id])
                        /\ "score" \in DOMAIN tbl.rows[i]
                        /\ tbl.rows[i]["score"] # rows_to_update[1]["score"]

\* the sync model from a table that is absent or empty
PollInit == Init /\ tbl.rows = <<>>

\* the sync model with a remote store whose insert jobs end: a job that is
\* polled is, sooner or later, found completed or found failed
PollSpec ==
    /\ PollInit
    /\ [][Next]_vars
    /\ WF_vars(PollDone \/ \E committed \in BOOLEAN : PollFails(committed))

\* the step catches a TimeoutError of job.result
TimeoutStep == polls' = polls + 1

\* C14: a step that catches a poll timeout stays in the poll loop of the same
\* job and changes nothing else (no call is issued, no attempt is used, no
\* error is recorded); the poll loop is left only by the completion of the
\* job, which moves on to the next batch or to the updates, or by an error
\* that is no timeout, which fails the attempt; TimeoutError is never the
\* error of an attempt; and a job that is polled leaves the poll loop.
C14_PollTimeoutNeverSurfaces ==
    /\ [][/\ TimeoutStep =>
               /\ pc = "poll" /\ pc' = "poll"
               /\ UNCHANGED <<cred, tbl, data, attempt, err, existing_df, rows_to_insert,
                              rows_to_update, batch_index, count, calls, rerun>>
          /\ (pc = "poll" /\ pc' # "poll") =>
               \/ /\ calls' = Append(calls, Call("inserted", TRUE))
                  /\ batch_index' = batch_index + 1
                  /\ pc' \in {"insert", "update", "done"}
                  /\ attempt' = attempt /\ err' = err
               \/ /\ calls' = Append(calls, Call("inserted", FALSE))
                  /\ pc' \in {"start", "failed"}
                  /\ err' \in {"RemoteError", "RetryError"}
         ]_vars
    /\ [](err # "TimeoutError")
    /\ [](pc = "poll" => calls[Len(calls)] = Call("insert", TRUE))
    /\ (pc = "poll") ~> (pc # "poll")

\* the job of a batch has timed out MaxPolls times in the first attempt and
\* is still polled
C14_Witness ==
    /\ pc = "poll"
    /\ polls = MaxPolls
    /\ attempt = 1
    /\ err = "none"
    /\ Issued(calls, {"insert"}) = 1

(***************************************************************************)
(* The planner alone: specification PlanSpec applies _prepare_rows to a    *)
(* DataFrame and a fetched frame drawn from bounded sets.  The DataFrame   *)
(* holds what a caller computes (10, "true", False), the fetched frame     *)
(* what the store returns for a FLOAT and a BOOL column (10.0, NaN, True). *)
(***************************************************************************)
MaxPlanRows == 2

MaxExistingRows == 2

PlanCols == <<"id", "score", "active">>

PlanDtype ==
    [c \in {"id", "score", "active"} |-> IF c = "score" THEN "int64" ELSE "object"]

PlanRows ==
    {[c \in {"id", "score", "active"} |->
         IF c = "id" THEN r ELSE IF c = "score" THEN v ELSE a] :
        r \in RefValues,
        v \in {VInt(10)},
        a \in {VStr(<<"t", "r", "u", "e">>), VBool(FALSE)}}

PlanDatasets ==
    {[cols |-> PlanCols, dtype |-> PlanDtype, rows |-> rows] :
        rows \in SeqsUpTo(PlanRows, MaxPlanRows)}

FetchedRows ==
    {[c \in {"id", "score", "active", "_synced_at"} |->
         IF c = "id" THEN r
         ELSE IF c = "score" THEN v
         ELSE IF c = "active" THEN a
         ELSE VTs] :
        r \in RefValues,
        v \in {VFloat(10), VNaN},
        a \in {VBool(TRUE), VBool(FALSE)}}

FetchedFrames ==
    {[cols |-> <<"id", "score", "active", "_synced_at">>, rows |-> rows] :
        rows \in SeqsUpTo(FetchedRows, MaxExistingRows)}

PlanInit ==
    /\ data \in PlanDatasets
    /\ existing_df \in FetchedFrames
    /\ pc = "plan"
    /\ rows_to_insert = <<>>
    /\ rows_to_update = <<>>
    /\ cred = TRUE
    /\ tbl = NoTable
    /\ attempt = 1
    /\ err = "none"
    /\ batch_index = 0
    /\ count = 0
    /\ calls = <<>>
    /\ polls = 0
    /\ rerun = FALSE
    /\ NothingCompared
    /\ NoThrottler
    /\ NoRace

\* mutant of Plan: the fetched rows that found their DataFrame row are
\* dropped from existing_df
PlanConsuming ==
    /\ pc = "plan"
    /\ rows_to_insert' = _prepare_rows(data, reference_id, existing_df).ins
    /\ rows_to_update' = _prepare_rows(data, reference_id, existing_df).upd
    /\ existing_df' = [existing_df EXCEPT !.rows =
          SelectSeq(@, LAMBDA e : \A i \in 1..Len(data.rows) :
                                    e[reference_id] # data.rows[i][reference_id])]
    /\ pc' = "planned"
    /\ UNCHANGED <<cred, tbl, data, attempt, err, batch_index, count,
                   calls, polls, rerun, compared, throttler, race>>

\* rows_to_insert, rows_to_update = _prepare_rows(data, reference_id, existing_df)
Plan ==
    /\ pc = "plan"
    /\ rows_to_insert' = _prepare_rows(data, reference_id, existing_df).ins
    /\ rows_to_update' = _prepare_rows(data, reference_id, existing_df).upd
    /\ pc' = "planned"
    /\ UNCHANGED <<cred, tbl, data, attempt, err, existing_df, batch_index, count,
                   calls, polls, rerun, compared, throttler, race>>

\* _prepare_rows is called a second time with the same arguments
PlanAgain ==
    /\ pc = "planned"
    /\ rows_to_insert' = _prepare_rows(data, reference_id, existing_df).ins
    /\ rows_to_update' = _prepare_rows(data, reference_id, existing_df).upd
    /\ pc' = "replanned"
    /\ UNCHANGED <<cred, tbl, data, attempt, err, existing_df, batch_index, count,
                   calls, polls, rerun, compared, throttler, race>>

PlanNext == Plan \/ PlanAgain

PlanSpec == PlanInit /\ [][PlanNext]_vars

\* the fetched rows with the reference value of DataFrame row i, in fetched order
MatchesOf(i) ==
    SelectSeq(existing_df.rows, LAMBDA e : e[reference_id] = data.rows[i][reference_id])

DataCols == Range(data.cols) \ {reference_id, "_synced_at"}

\* the columns of DataFrame row i that differ from the first matching fetched row
DiffersOf(i) == {c \in DataCols : ~_equals(MatchesOf(i)[1][c], data.rows[i][c])}

RefsOf(rows) == {rows[k][reference_id] : k \in 1..Len(rows)}

\* C2: a DataFrame row is in rows_to_insert exactly when no fetched row has
\* its reference value, every row of rows_to_update has a fetched row with
\* its reference value, no reference value is in both lists, and every row
\* without a match is inserted once.
C2_PartitionByMatch ==
    pc = "planned" =>
        /\ \A i \in 1..Len(data.rows) :
              data.rows[i][reference_id] \in RefsOf(rows_to_insert) <=> MatchesOf(i) = <<>>
        /\ \A k \in 1..Len(rows_to_update) :
              \E j \in 1..Len(existing_df.rows) :
                 existing_df.rows[j][reference_id] = rows_to_update[k][reference_id]
        /\ RefsOf(rows_to_insert) \cap RefsOf(rows_to_update) = {}
        /\ Len(rows_to_insert) = Cardinality({i \in 1..Len(data.rows) : MatchesOf(i) = <<>>})
        /\ Len(rows_to_insert) + Len(rows_to_update) <= Len(data.rows)

\* the plan holds an insert and an update
C2_Witness ==
    pc = "planned" /\ rows_to_insert # <<>> /\ rows_to_update # <<>>

\* C3: when every DataFrame row has a matching fetched row and each of its
\* data columns equals, under _equals, the value of the first match, both
\* lists are empty.
C3_NoOpOnExactMatch ==
    (/\ pc = "planned"
     /\ \A i \in 1..Len(data.rows) :
           MatchesOf(i) # <<>> /\ DiffersOf(i) = {})
    => (rows_to_insert = <<>> /\ rows_to_update = <<>>)

\* two rows planned as no-ops, one of them the text "true" against the boolean True
C3_Witness ==
    /\ pc = "planned"
    /\ Len(data.rows) = 2
    /\ \A i \in 1..Len(data.rows) : MatchesOf(i) # <<>> /\ DiffersOf(i) = {}
    /\ \E i \in 1..Len(data.rows) :
          /\ data.rows[i]["active"] = VStr(<<"t", "r", "u", "e">>)
          /\ MatchesOf(i)[1]["active"] = VBool(TRUE)

\* C4: every row of rows_to_update is the sparse image of a DataFrame row
\* that has a match: its keys are the differing columns, the reference column
\* and _synced_at, at least one column differs, _synced_at is None (pending)
\* and the other keys carry the DataFrame's values.
C4_SparseUpdates ==
    pc = "planned" =>
        \A k \in 1..Len(rows_to_update) :
           \E i \in 1..Len(data.rows) :
              /\ MatchesOf(i) # <<>>
              /\ DiffersOf(i) # {}
              /\ DOMAIN rows_to_update[k] = DiffersOf(i) \cup {reference_id, "_synced_at"}
              /\ rows_to_update[k]["_synced_at"] = VNone
              /\ \A c \in DiffersOf(i) \cup {reference_id} :
                    rows_to_update[k][c] = data.rows[i][c]

\* an update that leaves out a column that compared equal across representations
C4_Witness ==
    /\ pc = "planned"
    /\ \E k \in 1..Len(rows_to_update) :
          /\ DOMAIN rows_to_update[k] = {"id", "score", "_synced_at"}
          /\ \E i \in 1..Len(data.rows) :
                /\ data.rows[i]["id"] = rows_to_update[k]["id"]
                /\ data.rows[i]["active"] = VStr(<<"t", "r", "u", "e">>)

RowIndexes == [i \in 1..Len(data.rows) |-> i]

\* the positions of the DataFrame rows without a match, in DataFrame order
InsertedIndexes == SelectSeq(RowIndexes, LAMBDA i : MatchesOf(i) = <<>>)

\* the positions of the DataFrame rows that differ from their match, in DataFrame order
UpdatedIndexes == SelectSeq(RowIndexes, LAMBDA i : MatchesOf(i) # <<>> /\ DiffersOf(i) # {})

\* C18: the k-th row of rows_to_insert carries the values of the k-th
\* DataFrame row that has no match, and the k-th row of rows_to_update those
\* of the k-th DataFrame row that differs from its match: both lists are in
\* DataFrame order.
C18_OrderPreserved ==
    pc = "planned" =>
        /\ Len(rows_to_insert) = Len(InsertedIndexes)
        /\ \A k \in 1..Len(rows_to_insert) :
              \A c \in Range(data.cols) :
                 rows_to_insert[k][c] = data.rows[InsertedIndexes[k]][c]
        /\ Len(rows_to_update) = Len(UpdatedIndexes)
        /\ \A k \in 1..Len(rows_to_update) :
              \A c \in DOMAIN rows_to_update[k] \ {"_synced_at"} :
                 rows_to_update[k][c] = data.rows[UpdatedIndexes[k]][c]

\* two rows updated in the order of the DataFrame, which is neither the
\* order of their reference values nor the order of the fetched rows
C18_Witness ==
    /\ pc = "planned"
    /\ Len(data.rows) = 2
    /\ data.rows[1][reference_id] = VStr(<<"x", "2">>)
    /\ data.rows[2][reference_id] = VStr(<<"x", "1">>)
    /\ rows_to_insert = <<>>
    /\ Len(rows_to_update) = 2
    /\ rows_to_update[1][reference_id] = VStr(<<"x", "2">>)
    /\ rows_to_update[2][reference_id] = VStr(<<"x", "1">>)
    /\ existing_df.rows[1][reference_id] = VStr(<<"x", "1">>)

(***************************************************************************)
(* The schema reconciler alone: specification SchemaSpec applies           *)
(* _ensure_table_exists, as one step, to DataFrames without rows whose     *)
(* columns are drawn from id, score, flag and _synced_at, run after run.   *)
(***************************************************************************)
MaxCols == 3

ColumnNames == {"id", "score", "flag", "_synced_at"}

DtypesOf(c) ==
    IF c = "score" THEN {"float64", "int64"}
    ELSE IF c = "flag" THEN {"bool"}
    ELSE {"object"}

DistinctSeq(q) == \A i, j \in 1..Len(q) : q[i] = q[j] => i = j

SchemaDatasets ==
    UNION {{[cols |-> cols, dtype |-> dtype, rows |-> <<>>] :
               dtype \in {f \in [Range(cols) -> {"float64", "int64", "bool", "object"}] :
                             \A c \in Range(cols) : f[c] \in DtypesOf(c)}} :
           cols \in {q \in SeqsUpTo(ColumnNames, MaxCols) :
                        DistinctSeq(q) /\ reference_id \in Range(q)}}

\* the tables the first run may find: none, one whose score is text and that
\* has no _synced_at, one with id and _synced_at only
SchemaInitTables ==
    { NoTable,
      [exists |-> TRUE, rows |-> <<>>,
       schema |-> <<Field("id", "STRING"), Field("score", "STRING")>>],
      [exists |-> TRUE, rows |-> <<>>,
       schema |-> <<Field("id", "STRING"), Field("_synced_at", "TIMESTAMP")>>] }

SchemaInit ==
    /\ tbl \in SchemaInitTables
    /\ data = NoData
    /\ pc = "schema"
    /\ calls = <<>>
    /\ polls = 0
    /\ rerun = FALSE
    /\ NothingCompared
    /\ NoThrottler
    /\ NoRace
    /\ err = "none"
    /\ cred = TRUE
    /\ attempt = 1
    /\ existing_df = EmptyFrame
    /\ rows_to_insert = <<>>
    /\ rows_to_update = <<>>
    /\ batch_index = 0
    /\ count = 0

\* _ensure_table_exists(client, table_id, table_ref, d), start to end; the
\* store answers every call, and refuses a schema that repeats a name
_ensure_table_exists(d) ==
    /\ pc \in {"schema", "ensured", "rejected"}
    /\ data' = d
    /\ rerun' = (pc # "schema" /\ d = data)
    /\ IF ~tbl.exists
       THEN /\ tbl' = create_table(created_schema(d))
            /\ calls' = <<Call("describe", TRUE), Call("create", TRUE)>>
            /\ pc' = "ensured" /\ err' = "none"
       ELSE IF new_fields(tbl.schema, d) = <<>>
       THEN /\ tbl' = tbl
            /\ calls' = <<Call("describe", TRUE)>>
            /\ pc' = "ensured" /\ err' = "none"
       ELSE IF UniqueNames(altered_schema(tbl.schema, d))
       THEN /\ tbl' = update_table(tbl, altered_schema(tbl.schema, d))
            /\ calls' = <<Call("describe", TRUE), Call("alter", TRUE)>>
            /\ pc' = "ensured" /\ err' = "none"
       ELSE /\ tbl' = tbl
            /\ calls' = <<Call("describe", TRUE), Call("alter", FALSE)>>
            /\ pc' = "rejected" /\ err' = "RemoteError"
    /\ UNCHANGED <<cred, attempt, locals, compared, throttler, race>>

SchemaNext == \E d \in SchemaDatasets : _ensure_table_exists(d)

SchemaSpec == SchemaInit /\ [][SchemaNext]_vars

\* how many fields of the schema carry the name c
Occurrences(schema, c) == Cardinality({i \in 1..Len(schema) : schema[i].name = c})

\* C9: after a run of ensureSchema every column of the dataset is in the
\* schema once, and a run that repeats the dataset of the run before it
\* issues no create and no alter call.
C9_SecondRunIsNoOp ==
    pc # "schema" =>
        /\ \A c \in Range(data.cols) : Occurrences(tbl.schema, c) = 1
        /\ rerun => Ops(calls) \cap {"create", "alter"} = {}

\* C20: after a run of ensureSchema the table is there, no two fields of its
\* schema share a name, and _synced_at is in it once, as a TIMESTAMP.
C20_SyncedAtOnce ==
    pc # "schema" =>
        /\ tbl.exists
        /\ UniqueNames(tbl.schema)
        /\ Occurrences(tbl.schema, "_synced_at") = 1
        /\ \A i \in 1..Len(tbl.schema) :
              tbl.schema[i].name = "_synced_at" => tbl.schema[i].type = "TIMESTAMP"

\* the same holds after every run whose dataset does not, with the table
\* lacking _synced_at, declare that column itself
SyncedAtOnceUnlessDeclaredTwice == pc = "ensured" => C20_SyncedAtOnce

\* the names of schema from position n + 1 on
NamesFrom(schema, n) == [i \in 1..(Len(schema) - n) |-> schema[n + i].name]

\* C10 as stated: a run of ensureSchema keeps the fields of the table in
\* place and appends the new ones in dataset order, and a _synced_at that
\* the run adds is the last field.
C10_AdditiveSyncedAtLast ==
    [][/\ SubSeq(tbl'.schema, 1, Len(tbl.schema)) = tbl.schema
       /\ NamesFrom(tbl'.schema, Len(tbl.schema)) \in
             { SelectSeq(data'.cols, LAMBDA c : c \notin Names(tbl.schema) /\ c # "_synced_at")
               \o tail : tail \in {<<>>, <<"_synced_at">>} }
       /\ ("_synced_at" \notin Names(tbl.schema) /\ "_synced_at" \in Names(tbl'.schema))
             => tbl'.schema[Len(tbl'.schema)].name = "_synced_at"
      ]_vars

\* C10, amended: a run of ensureSchema keeps the fields of the table in
\* place, with their types, and appends only: the columns of the dataset
\* that the table lacks, in dataset order, then _synced_at when neither the
\* table nor the dataset has it.
C10_AdditiveOnly ==
    [][/\ Len(tbl'.schema) >= Len(tbl.schema)
       /\ SubSeq(tbl'.schema, 1, Len(tbl.schema)) = tbl.schema
       /\ \/ tbl'.schema = tbl.schema
          \/ NamesFrom(tbl'.schema, Len(tbl.schema)) =
                SelectSeq(data'.cols, LAMBDA c : c \notin Names(tbl.schema))
                \o (IF "_synced_at" \notin Names(tbl.schema) \cup Range(data'.cols)
                    THEN <<"_synced_at">> ELSE <<>>)
      ]_vars

\* a run added flag and _synced_at behind a score column that stays text
\* although the dataset holds it as float64
C10_Witness ==
    /\ pc = "ensured"
    /\ "alter" \in Ops(calls)
    /\ data.cols = <<"id", "score", "flag">>
    /\ data.dtype["score"] = "float64"
    /\ tbl.schema = <<Field("id", "STRING"), Field("score", "STRING"),
                      Field("flag", "BOOL"), Field("_synced_at", "TIMESTAMP")>>

(***************************************************************************)
(* The insert loop alone: specification BatchSpec runs                     *)
(* _execute_batch_insert over a DataFrame of n columns and a list of N     *)
(* rows to insert, every job completing at its first poll.  Columns and    *)
(* rows are told apart by their position: column i is i, row i is i.       *)
(***************************************************************************)
MaxInserts == 3000

ColumnCounts == {0, 1, 20, 21, 37, 10000, 10001}

InsertCounts == {0, 1, 30, 269, 270, 271, 500, 501, 1000, MaxInserts}

\* the record of one submitted INSERT statement and the rows it carries
InsertCall(batch) == [op |-> "insert", ok |-> TRUE, batch |-> batch]

BatchInit ==
    /\ \E n \in ColumnCounts :
          data = [cols |-> [i \in 1..n |-> i], dtype |-> <<>>, rows |-> <<>>]
    /\ \E total \in InsertCounts : rows_to_insert = [i \in 1..total |-> i]
    /\ pc = "call"
    /\ batch_index = 0
    /\ calls = <<>>
    /\ err = "none"
    /\ rows_to_update = <<>>
    /\ existing_df = EmptyFrame
    /\ tbl = NoTable
    /\ cred = TRUE
    /\ attempt = 1
    /\ count = 0
    /\ polls = 0
    /\ rerun = FALSE
    /\ NothingCompared
    /\ NoThrottler
    /\ NoRace

\* _execute_batch_insert up to the head of its loop: the early return, the
\* batch size, and the division by it
BatchStart ==
    /\ pc = "call"
    /\ IF rows_to_insert = <<>>
       THEN pc' = "batched" /\ err' = err
       ELSE IF batch_size(Len(data.cols)) = 0
       THEN pc' = "raised" /\ err' = "ZeroDivisionError"
       ELSE IF total_batches(Len(rows_to_insert), batch_size(Len(data.cols))) = 0
       THEN pc' = "batched" /\ err' = err
       ELSE pc' = "batch" /\ err' = err
    /\ UNCHANGED <<cred, tbl, data, attempt, existing_df, rows_to_insert,
                   rows_to_update, batch_index, count, calls, polls, rerun, compared, throttler, race>>

\* one turn of the loop: the INSERT of current_batch is submitted and completes
BatchSubmit ==
    /\ pc = "batch"
    /\ calls' = Append(calls,
          InsertCall(current_batch(rows_to_insert, batch_index, batch_size(Len(data.cols)))))
    /\ batch_index' = batch_index + 1
    /\ pc' = IF batch_index + 1 <
                   total_batches(Len(rows_to_insert), batch_size(Len(data.cols)))
             THEN "batch" ELSE "batched"
    /\ UNCHANGED <<cred, tbl, data, attempt, err, existing_df, rows_to_insert,
                   rows_to_update, count, polls, rerun, compared, throttler, race>>

BatchNext == BatchStart \/ BatchSubmit

BatchSpec == BatchInit /\ [][BatchNext]_vars

\* C12: the batch size is at most 500, its product with the column count is
\* at most 10000, it is the largest such number (500 for no column, 270 for
\* 37 columns), and every submitted batch has at most 500 rows and at most
\* 10000 cells.
C12_BatchSizing ==
    LET n == Len(data.cols)
        B == batch_size(n)
    IN  /\ B <= 500
        /\ B * n <= 10000
        /\ B = 500 \/ (B + 1) * n > 10000
        /\ n = 0 => B = 500
        /\ n = 37 => B = 270
        /\ \A i \in 1..Len(calls) :
              /\ Len(calls[i].batch) <= 500
              /\ Len(calls[i].batch) <= B
              /\ Len(calls[i].batch) * n <= 10000

\* a batch of 270 rows of 37 columns was submitted
C12_Witness ==
    /\ Len(data.cols) = 37
    /\ \E i \in 1..Len(calls) : Len(calls[i].batch) = 270

\* C13: the j-th row of the i-th submitted batch is row (i - 1) * B + j of
\* the insert list, every batch but the last has B rows and no batch is
\* empty; when the loop has ended, the batches hold N rows in all and their
\* number is the least k with k * B >= N (12 batches, the last of 30 rows,
\* for 3000 rows at B = 270).
C13_BatchesPartition ==
    LET N == Len(rows_to_insert)
        B == batch_size(Len(data.cols))
        k == Len(calls)
    IN  /\ \A i \in 1..k : \A j \in 1..Len(calls[i].batch) :
              calls[i].batch[j] = rows_to_insert[(i - 1) * B + j]
        /\ \A i \in 1..k : Len(calls[i].batch) >= 1
        /\ \A i \in 1..(k - 1) : Len(calls[i].batch) = B
        /\ k = batch_index
        /\ pc = "batched" =>
              /\ k > 0 => (k - 1) * B + Len(calls[k].batch) = N
              /\ k = 0 => N = 0
              /\ k * B >= N
              /\ k > 0 => (k - 1) * B < N
              /\ (N = 3000 /\ B = 270) => (k = 12 /\ Len(calls[12].batch) = 30)
        /\ pc = "raised" => (B = 0 /\ k = 0)

\* 3000 rows of 37 columns went out in 12 batches, the last of 30 rows
C13_Witness ==
    /\ pc = "batched"
    /\ Len(rows_to_insert) = 3000
    /\ Len(data.cols) = 37
    /\ Len(calls) = 12
    /\ Len(calls[12].batch) = 30

(***************************************************************************)
(* The comparator alone: specification CompareSpec applies _equals to two  *)
(* values drawn from CompareValues.                                        *)
(***************************************************************************)
TrueTexts == {<<"t", "r", "u", "e">>, <<"T", "R", "U", "E">>, <<"T", "r", "u", "e">>}

FalseTexts == {<<"f", "a", "l", "s", "e">>, <<"F", "A", "L", "S", "E">>,
               <<"F", "a", "l", "s", "e">>}

\* {"a":1,"b":2}, {"b": 2, "a": 1} and the Python literal {'a':1,'b':2}
ObjectTexts ==
    { <<"{", "\"", "a", "\"", ":", "1", ",", "\"", "b", "\"", ":", "2", "}">>,
      <<"{", "\"", "b", "\"", ":", " ", "2", ",", " ", "\"", "a", "\"", ":", " ", "1", "}">>,
      <<"{", "'", "a", "'", ":", "1", ",", "'", "b", "'", ":", "2", "}">> }

\* the dict with a = 1 and b = 2, in either insertion order
ObjectValues == { VDict(<< <<<<"a">>, 1>>, <<<<"b">>, 2>> >>),
                  VDict(<< <<<<"b">>, 2>>, <<<<"a">>, 1>> >>) }

\* [1, 2] as text and as a list
ArrayTexts == { <<"[", "1", ",", "2", "]">>, <<"[", "1", ",", " ", "2", "]">> }

ArrayValues == { VList(<<1, 2>>) }

\* 42 and 7 as text and as numbers
NumberTexts == { <<"4", "2">>, <<"7">> }

NumberValues == { VInt(42), VFloat(42), VInt(7), VFloat(7) }

\* texts that are no boolean literal, no JSON and no number
PlainTexts == { <<"a", "b", "c">>, <<"a", "b", "d">>, <<"A", "B", "C">> }

CompareValues ==
    {VStr(t) : t \in TrueTexts \cup FalseTexts \cup ObjectTexts \cup ArrayTexts
                     \cup NumberTexts \cup PlainTexts}
    \cup {VBool(TRUE), VBool(FALSE), VNpBool(TRUE), VNpBool(FALSE)}
    \cup ObjectValues \cup ArrayValues \cup NumberValues
    \cup { VDict(<< <<<<"a">>, 1>>, <<<<"b">>, 3>> >>), VList(<<2, 1>>),
           VInt(1), VInt(0), VNone, VNaN }

CompareInit ==
    /\ arg_a \in CompareValues
    /\ arg_b \in CompareValues
    /\ equal = FALSE
    /\ NoThrottler
    /\ NoRace
    /\ pc = "compare"
    /\ data = NoData
    /\ tbl = NoTable
    /\ cred = TRUE
    /\ attempt = 1
    /\ err = "none"
    /\ existing_df = EmptyFrame
    /\ rows_to_insert = <<>>
    /\ rows_to_update = <<>>
    /\ batch_index = 0
    /\ count = 0
    /\ calls = <<>>
    /\ polls = 0
    /\ rerun = FALSE

\* equal = _equals(arg_a, arg_b)
Compare ==
    /\ pc = "compare"
    /\ equal' = _equals(arg_a, arg_b)
    /\ pc' = "compared"
    /\ UNCHANGED <<cred, tbl, data, attempt, err, locals, calls, rerun, arg_a, arg_b, throttler, race>>

CompareNext == Compare

CompareSpec == CompareInit /\ [][CompareNext]_vars

\* the text x against the value y, as first and second argument or the other way round
Compared(texts, values) ==
    \/ arg_a.k = "str" /\ arg_a.s \in texts /\ arg_b \in values
    \/ arg_b.k = "str" /\ arg_b.s \in texts /\ arg_a \in values

\* the number a numeric text of the model spells
NumberOf(t) == IF t = <<"7">> THEN 7 ELSE 42

\* C16: _equals returns True for a boolean literal text in any case against
\* the boolean it spells, for a JSON (or Python literal) text against the
\* dict or list with its content in any key order, and for a numeric text
\* against the number it spells; it returns False for two distinct plain texts.
C16_EquivalenceClasses ==
    pc = "compared" =>
        /\ Compared(TrueTexts, {VBool(TRUE), VNpBool(TRUE)}) => equal
        /\ Compared(FalseTexts, {VBool(FALSE), VNpBool(FALSE)}) => equal
        /\ Compared(ObjectTexts, ObjectValues) => equal
        /\ Compared(ArrayTexts, ArrayValues) => equal
        /\ \A t \in NumberTexts :
              Compared({t}, {VInt(NumberOf(t)), VFloat(NumberOf(t))}) => equal
        /\ (arg_a.k = "str" /\ arg_b.k = "str" /\ arg_a.s \in PlainTexts
              /\ arg_b.s \in PlainTexts /\ arg_a.s # arg_b.s) => ~equal
        /\ (arg_a = VStr(<<"4", "2">>) /\ arg_b = VFloat(42)) => equal
        /\ (arg_a = VStr(<<"a", "b", "c">>) /\ arg_b = VStr(<<"a", "b", "d">>)) => ~equal

\* _equals('{"a":1,"b":2}', {"b": 2, "a": 1}) has returned True
C16_Witness ==
    /\ pc = "compared"
    /\ arg_a = VStr(<<"{", "\"", "a", "\"", ":", "1", ",", "\"", "b", "\"", ":", "2", "}">>)
    /\ arg_b = VDict(<< <<<<"b">>, 2>>, <<<<"a">>, 1>> >>)
    /\ equal

\* C24: _equals(v, v) is True and _equals(a, b) = _equals(b, a), for every
\* value a cell can hold, None and NaN included.
C24_ReflexiveAndSymmetric ==
    pc = "compared" =>
        /\ arg_a = arg_b => equal
        /\ equal = _equals(arg_b, arg_a)

\* what holds of it: _equals is symmetric, and _equals(v, v) is True for
\* every value but NaN
SymmetricAndReflexiveButForNaN ==
    pc = "compared" =>
        /\ (arg_a = arg_b /\ arg_a # VNaN) => equal
        /\ (arg_a = VNaN /\ arg_b = VNaN) => ~equal
        /\ equal = _equals(arg_b, arg_a)

(***************************************************************************)
(* The throttler: specification ThrottlerSpec has NumThreads threads call  *)
(* Throttler.acquire of one Throttler over and over, while time passes in  *)
(* ticks.  time.sleep(d) returns at some time not before d has passed.     *)
(***************************************************************************)
NumThreads == 2

MaxRateLimit == 2

MaxPeriod == 2

MaxTime == 4

Threads == 1..NumThreads

\* [t for t in self.requests if current_time - t < self.period]
recent(reqs, time) == SelectSeq(reqs, LAMBDA t : time - t < period)

\* the sync, the comparator and the table play no part
NoSync ==
    /\ data = NoData
    /\ tbl = NoTable
    /\ cred = TRUE
    /\ attempt = 1
    /\ err = "none"
    /\ existing_df = EmptyFrame
    /\ rows_to_insert = <<>>
    /\ rows_to_update = <<>>
    /\ batch_index = 0
    /\ count = 0
    /\ calls = <<>>
    /\ polls = 0
    /\ rerun = FALSE
    /\ pc = "throttle"
    /\ NothingCompared

\* Throttler(rate_limit, period), no call of acquire made yet
ThrottlerInit ==
    /\ rate_limit \in 1..MaxRateLimit
    /\ period \in 1..MaxPeriod
    /\ requests = <<>>
    /\ lock = 0
    /\ now = 0
    /\ where = [t \in Threads |-> "out"]
    /\ current_time = [t \in Threads |-> 0]
    /\ wake = [t \in Threads |-> 0]
    /\ granted = <<>>
    /\ NoSync
    /\ NoRace

sync_vars == <<cred, tbl, data, pc, attempt, err, locals, calls, rerun, compared, race>>

\* time passes
Tick ==
    /\ now < MaxTime
    /\ now' = now + 1
    /\ UNCHANGED <<rate_limit, period, requests, lock, where, current_time, wake,
                   granted, sync_vars>>

\* with self.lock: the thread gets the lock when it is free
Enter(t) ==
    /\ where[t] = "out"
    /\ lock = 0
    /\ lock' = t
    /\ where' = [where EXCEPT ![t] = "locked"]
    /\ UNCHANGED <<rate_limit, period, requests, now, current_time, wake, granted,
                   sync_vars>>

\* mutant of Clean: the window is taken as full one request late
CleanOneLate(t) ==
    /\ where[t] = "locked"
    /\ current_time' = [current_time EXCEPT ![t] = now]
    /\ requests' = recent(requests, now)
    /\ where' = [where EXCEPT ![t] =
                    IF Len(recent(requests, now)) > rate_limit THEN "full" ELSE "record"]
    /\ UNCHANGED <<rate_limit, period, lock, now, wake, granted, sync_vars>>

\* current_time = time.time(), the old timestamps are dropped, and the
\* length of the list is tested against rate_limit
Clean(t) ==
    /\ where[t] = "locked"
    /\ current_time' = [current_time EXCEPT ![t] = now]
    /\ requests' = recent(requests, now)
    /\ where' = [where EXCEPT ![t] =
                    IF Len(recent(requests, now)) >= rate_limit THEN "full" ELSE "record"]
    /\ UNCHANGED <<rate_limit, period, lock, now, wake, granted, sync_vars>>

\* wait_time = period - (current_time - requests[0]); time.sleep(wait_time) is called
Sleep(t) ==
    /\ where[t] = "full"
    /\ wake' = [wake EXCEPT ![t] = now + (period - (current_time[t] - requests[1]))]
    /\ where' = [where EXCEPT ![t] = "asleep"]
    /\ UNCHANGED <<rate_limit, period, requests, lock, now, current_time, granted,
                   sync_vars>>

\* time.sleep returns; current_time = time.time() and the list is cleaned again
Wake(t) ==
    /\ where[t] = "asleep"
    /\ now >= wake[t]
    /\ current_time' = [current_time EXCEPT ![t] = now]
    /\ requests' = recent(requests, now)
    /\ where' = [where EXCEPT ![t] = "record"]
    /\ UNCHANGED <<rate_limit, period, lock, now, wake, granted, sync_vars>>

\* self.requests.append(time.time()); the lock is released and acquire returns
Record(t) ==
    /\ where[t] = "record"
    /\ requests' = Append(requests, now)
    /\ granted' = Append(granted, now)
    /\ lock' = 0
    /\ where' = [where EXCEPT ![t] = "out"]
    /\ current_time' = [current_time EXCEPT ![t] = 0]
    /\ wake' = [wake EXCEPT ![t] = 0]
    /\ UNCHANGED <<rate_limit, period, now, sync_vars>>

ThrottlerNext ==
    \/ Tick
    \/ \E t \in Threads : Enter(t)
    \/ \E t \in Threads : Clean(t)
    \/ \E t \in Threads : Sleep(t)
    \/ \E t \in Threads : Wake(t)
    \/ \E t \in Threads : Record(t)

ThrottlerSpec == ThrottlerInit /\ [][ThrottlerNext]_vars

\* the calls of acquire that returned with a timestamp in the window of
\* length period that starts at w
InWindow(w) == {i \in 1..Len(granted) : w <= granted[i] /\ granted[i] < w + period}

\* C17: every window of length period holds at most rate_limit returned
\* calls of acquire, whatever the threads do; a thread that finds the window
\* full goes to sleep with the lock held, and its sleep ends no sooner than
\* period after the oldest recorded call; one thread at most is inside the
\* critical section.
C17_RateBound ==
    /\ [](\A w \in 0..MaxTime : Cardinality(InWindow(w)) <= rate_limit)
    /\ [](Len(requests) <= rate_limit)
    /\ [](\A t \in Threads : where[t] # "out" <=> lock = t)
    /\ [][\A t \in Threads :
             /\ (where[t] = "locked" /\ where'[t] = "record")
                   => Len(recent(requests, now)) < rate_limit
             /\ (where[t] = "asleep" /\ where'[t] # "asleep")
                   => (now >= requests[1] + period /\ lock = t)
         ]_vars

\* both threads were let through at once, and a third call had to sleep
\* until the oldest of the two had left the window
C17_Witness ==
    /\ rate_limit = 2
    /\ period = 2
    /\ Len(granted) = 3
    /\ granted[1] = granted[2]
    /\ granted[3] = granted[1] + period
    /\ \E t \in Threads : where[t] = "out" /\ lock = 0

(***************************************************************************)
(* The throttler over unbounded time (specification AcquireSpec): the      *)
(* timestamps are kept relative to the present, which is 0, so that a tick *)
(* of the clock moves every recorded timestamp one unit into the past.  A  *)
(* timestamp that is period old or older is dropped by the next cleaning   *)
(* whatever its age, so its age is not counted further.  A thread calls    *)
(* acquire ("waiting"), gets the lock, and goes on as in ThrottlerSpec.    *)
(***************************************************************************)
Max(x, y) == IF x >= y THEN x ELSE y

\* time.time() advances by one unit
TimePasses ==
    /\ requests' = [i \in 1..Len(requests) |-> Max(requests[i] - 1, 0 - period)]
    /\ wake' = [t \in Threads |-> IF where[t] = "asleep" THEN Max(wake[t] - 1, 0) ELSE wake[t]]
    /\ UNCHANGED <<rate_limit, period, lock, now, where, current_time, granted, sync_vars>>

\* a thread calls throttler.acquire() and waits for self.lock
CallAcquire(t) ==
    /\ where[t] = "out"
    /\ where' = [where EXCEPT ![t] = "waiting"]
    /\ UNCHANGED <<rate_limit, period, requests, lock, now, current_time, wake, granted,
                   sync_vars>>

\* with self.lock: the waiting thread gets the lock when it is free
TakeLock(t) ==
    /\ where[t] = "waiting"
    /\ lock = 0
    /\ lock' = t
    /\ where' = [where EXCEPT ![t] = "locked"]
    /\ UNCHANGED <<rate_limit, period, requests, now, current_time, wake, granted,
                   sync_vars>>

\* current_time = time.time(), the old timestamps are dropped, the length of
\* the list is tested and, when the window is full, wait_time is computed
ReadAndClean(t) ==
    /\ where[t] = "locked"
    /\ requests' = recent(requests, now)
    /\ IF Len(recent(requests, now)) >= rate_limit
       THEN /\ where' = [where EXCEPT ![t] = "full"]
            /\ wake' = [wake EXCEPT ![t] = period - (now - recent(requests, now)[1])]
       ELSE /\ where' = [where EXCEPT ![t] = "record"]
            /\ wake' = wake
    /\ UNCHANGED <<rate_limit, period, lock, now, current_time, granted, sync_vars>>

\* time.sleep(wait_time) is called, with the lock held
StartSleep(t) ==
    /\ where[t] = "full"
    /\ where' = [where EXCEPT ![t] = "asleep"]
    /\ UNCHANGED <<rate_limit, period, requests, lock, now, current_time, wake, granted,
                   sync_vars>>

\* time.sleep returns, wait_time or more after it was called; the time is
\* read and the list is cleaned again
EndSleep(t) ==
    /\ where[t] = "asleep"
    /\ wake[t] = 0
    /\ requests' = recent(requests, now)
    /\ where' = [where EXCEPT ![t] = "record"]
    /\ UNCHANGED <<rate_limit, period, lock, now, current_time, wake, granted, sync_vars>>

\* mutant of AppendAndReturn: the lock is not released
AppendAndKeepLock(t) ==
    /\ where[t] = "record"
    /\ requests' = Append(requests, now)
    /\ where' = [where EXCEPT ![t] = "out"]
    /\ UNCHANGED <<rate_limit, period, lock, now, current_time, wake, granted, sync_vars>>

\* self.requests.append(time.time()); the lock is released and acquire returns
AppendAndReturn(t) ==
    /\ where[t] = "record"
    /\ requests' = Append(requests, now)
    /\ lock' = 0
    /\ where' = [where EXCEPT ![t] = "out"]
    /\ UNCHANGED <<rate_limit, period, now, current_time, wake, granted, sync_vars>>

\* the steps of a thread inside the critical section
InsideLock(t) == ReadAndClean(t) \/ StartSleep(t) \/ EndSleep(t) \/ AppendAndReturn(t)

AcquireNext ==
    \/ TimePasses
    \/ \E t \in Threads : CallAcquire(t)
    \/ \E t \in Threads : TakeLock(t)
    \/ \E t \in Threads : ReadAndClean(t)
    \/ \E t \in Threads : StartSleep(t)
    \/ \E t \in Threads : EndSleep(t)
    \/ \E t \in Threads : AppendAndReturn(t)

\* time advances, a thread that can run does run, and a thread that waits
\* for a lock that is released again and again gets it
AcquireSpec ==
    /\ ThrottlerInit
    /\ [][AcquireNext]_vars
    /\ WF_vars(TimePasses)
    /\ \A t \in Threads : WF_vars(InsideLock(t)) /\ SF_vars(TakeLock(t))

Writers == {"w1", "w2"}

Idle ==
    [pc |-> "idle", data |-> NoData, existing_df |-> EmptyFrame, rows_to_insert |-> <<>>,
     rows_to_update |-> <<>>, batch_index |-> 0, count |-> 0]

\* the writer is between the call of sync_with_df and its return
Running(w) == writers[w].pc \notin {"idle", "done"}

\* the tables the writers find: every column is there, no two rows hold the
\* same reference value
RaceTables == {t \in InitTables : t.exists /\ Len(t.schema) = 3 /\ RefsUnique(t)}

RaceInit ==
    /\ tbl \in RaceTables
    /\ writers = [w \in Writers |-> Idle]
    /\ overlapped = FALSE
    /\ cred = TRUE
    /\ data = NoData
    /\ pc = "race"
    /\ attempt = 1
    /\ err = "none"
    /\ existing_df = EmptyFrame
    /\ rows_to_insert = <<>>
    /\ rows_to_update = <<>>
    /\ batch_index = 0
    /\ count = 0
    /\ calls = <<>>
    /\ polls = 0
    /\ rerun = FALSE
    /\ NothingCompared
    /\ NoThrottler

single_vars == <<cred, data, pc, attempt, err, locals, calls, rerun, compared, throttler>>

\* where a writer goes once its inserts from batch bi on are due
after_inserts(d, ins, upd, bi) ==
    IF ins # <<>> /\ bi < total_batches(Len(ins), batch_size(Len(d.cols)))
    THEN "insert"
    ELSE IF upd # <<>> THEN "update"
    ELSE "done"

\* a caller invokes sync_with_df(d, "id", ...), once for each writer: the
\* table is described and found complete
Begin(w, d) ==
    /\ writers[w].pc = "idle"
    /\ writers' = [writers EXCEPT ![w] =
           [Idle EXCEPT !.data = d,
                        !.pc = IF ref_ids_of(d, reference_id) = <<>> THEN "done" ELSE "fetch"]]
    /\ overlapped' = (overlapped \/
                        (ref_ids_of(d, reference_id) # <<>> /\ \E v \in Writers \ {w} : Running(v)))
    /\ UNCHANGED <<tbl, single_vars>>

\* the writer's SELECT of the existing rows, and its plan
WriterFetch(w) ==
    /\ writers[w].pc = "fetch"
    /\ LET d == writers[w].data
           e == _get_existing_dataframe(tbl, reference_id, ref_ids_of(d, reference_id))
           p == _prepare_rows(d, reference_id, e)
       IN  writers' = [writers EXCEPT ![w].existing_df = e,
                                      ![w].rows_to_insert = p.ins,
                                      ![w].rows_to_update = p.upd,
                                      ![w].pc = after_inserts(d, p.ins, p.upd, 0)]
    /\ UNCHANGED <<tbl, overlapped, single_vars>>

\* mutant of WriterInsert: every row of the dataset is inserted, planned or not
WriterInsertAll(w) ==
    /\ writers[w].pc = "insert"
    /\ LET d == writers[w].data
           x == writers[w]
       IN  /\ tbl' = insert_into(tbl, d, d.rows)
           /\ writers' = [writers EXCEPT
                  ![w].batch_index = x.batch_index + 1,
                  ![w].pc = after_inserts(d, x.rows_to_insert, x.rows_to_update,
                                          x.batch_index + 1)]
    /\ UNCHANGED <<overlapped, single_vars>>

\* the writer's INSERT of its current batch, run to completion
WriterInsert(w) ==
    /\ writers[w].pc = "insert"
    /\ LET d == writers[w].data
           x == writers[w]
       IN  /\ tbl' = insert_into(tbl, d,
                        current_batch(x.rows_to_insert, x.batch_index, batch_size(Len(d.cols))))
           /\ writers' = [writers EXCEPT
                  ![w].batch_index = x.batch_index + 1,
                  ![w].pc = after_inserts(d, x.rows_to_insert, x.rows_to_update,
                                          x.batch_index + 1)]
    /\ UNCHANGED <<overlapped, single_vars>>

\* the writer's UPDATE for the next row of its rows_to_update
WriterUpdate(w) ==
    /\ writers[w].pc = "update"
    /\ LET d == writers[w].data
           x == writers[w]
       IN  /\ tbl' = update_set(tbl, d, reference_id, x.rows_to_update[x.count + 1])
           /\ writers' = [writers EXCEPT
                  ![w].count = x.count + 1,
                  ![w].pc = IF x.count + 1 < Len(x.rows_to_update) THEN "update" ELSE "done"]
    /\ UNCHANGED <<overlapped, single_vars>>

RaceNext ==
    \/ \E w \in Writers, d \in SyncDatasets : Begin(w, d)
    \/ \E w \in Writers : WriterFetch(w)
    \/ \E w \in Writers : WriterInsert(w)
    \/ \E w \in Writers : WriterUpdate(w)

RaceSpec == RaceInit /\ [][RaceNext]_vars

\* C23: as long as no invocation of sync_with_df has begun while another was
\* in progress, no two rows of the table hold the same reference value.
C23_SerialNoDuplicates == ~overlapped => RefsUnique(tbl)

\* two writers have each planned the insert of a row of the same reference
\* value, both have finished, and the table holds that value in two rows
C23_Witness ==
    /\ overlapped
    /\ \A w \in Writers : writers[w].pc = "done"
    /\ \E r \in RefValues :
          /\ \A w \in Writers :
                 \E k \in 1..Len(writers[w].rows_to_insert) :
                     writers[w].rows_to_insert[k][reference_id] = r
          /\ Cardinality(RowsWithRef(tbl, r)) = 2

==========================================================================
